---- MODULE Spec2Model ----
(***************************************************************************)
(* Model of src/bot.py: a Telegram bot that stores one subscription per    *)
(* user in SQLite (tables users and snapshots) and runs one background     *)
(* coroutine, monitor_task, that fetches every active subscription's page, *)
(* compares it with the stored snapshot and sends "New Theatres" messages. *)
(*                                                                         *)
(* The program is single-threaded asyncio: code between two awaits is      *)
(* atomic, and the command handlers run between the awaits of monitor_task.*)
(* Each action below is one such atomic piece.                             *)
(***************************************************************************)
EXTENDS Integers, Sequences, FiniteSets, TLC

VARIABLES
    users,      \* table users: user_id -> row (absent key = no row)
    snapshots,  \* table snapshots: user_id -> signature (absent key = no row)
    pc,         \* where monitor_task is suspended
    work,       \* monitor_task: the rows of `users` still to process, head = `user`
    curr,       \* monitor_task local: data returned by the last fetch
    err,        \* monitor_task local: TRUE iff the last fetch returned an error
    last,       \* monitor_task local: snapshot read for the current user
    msg,        \* monitor_task local: theatres named in the message ({} = "")
    exc,        \* monitor_task: the exception held by the except block
    baseline,   \* history: user_id -> TRUE from setup until a fetch succeeds
    call,       \* history: arguments of the last direct update_user call
    page,       \* history: the kind of page the last fetch of this cycle was served
    cycle,      \* history: parity of the number of cycles started
    alerted,    \* history: user_id -> venues named in a delivered, saved alert and
                \* listed by every successful fetch since, with no setup since
    conv        \* ConversationHandler: user_id -> state and context.user_data,
                \* with the conversation handler that ran last (history)

vars == <<users, snapshots, pc, work, curr, err, last, msg, exc, baseline, call,
          page, cycle, alerted, conv>>

----------------------------------------------------------------------------
(* Bounds of the model.                                                    *)

NumUsers == 2
NumMovies == 2
NumCities == 1
NumVenues == 2
NumSlots == 2

UserIds == 1..NumUsers
Movies == 1..NumMovies
Cities == 1..NumCities
Venues == 1..NumVenues
Slots == 1..NumSlots

\* The subscribers and pages of the specification that follows one
\* subscriber through every page the site can show.
DiffUserIds == {1}

\* SQL NULL in an integer-coded column.
NULL == 0

\* The three callback_data values of send_notify_mode's buttons.
Modes == {"THEATRE", "SHOW", "BOTH"}

\* A signature is the dict built by fetch_movie_data: venue name -> sorted
\* list of times.  A venue is a key iff it has at least one time
\* ("if times:"), and a sorted list is determined by its elements, so the
\* dict is coded as venue -> set of slots, {} meaning "not a key".
Signatures == [Venues -> SUBSET Slots]

EmptySig == [v \in Venues |-> {}]

\* Pages that list nothing, or the first venue with the first slot.
CoarsePages == {d \in Signatures : \A v \in Venues : d[v] \subseteq (IF v = 1 THEN {1} ELSE {})}

Keys(d) == {v \in Venues : d[v] # {}}

----------------------------------------------------------------------------
(* Database                                                                *)

Fields == {"user_id", "chat_id", "movie_name", "movie_url", "city", "notify_mode", "is_active"}

\* INSERT INTO users (user_id, chat_id): the other columns take their
\* defaults, NULL and is_active = 1.
NewRow(user_id, chat_id) ==
    [user_id |-> user_id, chat_id |-> chat_id, movie_name |-> NULL,
     movie_url |-> NULL, city |-> NULL, notify_mode |-> "NULL", is_active |-> 1]

\* update_user with INSERT OR REPLACE in place of INSERT-if-absent + UPDATE.
update_user_replace(T, user_id, chat_id, kwargs) ==
    LET fresh == NewRow(user_id, chat_id)
        row == [f \in Fields |-> IF f \in DOMAIN kwargs THEN kwargs[f] ELSE fresh[f]]
    IN  IF user_id \in DOMAIN T
        THEN [T EXCEPT ![user_id] = row]
        ELSE T @@ (user_id :> row)

update_user(T, user_id, chat_id, kwargs) ==
    LET T1 == IF user_id \in DOMAIN T THEN T ELSE T @@ (user_id :> NewRow(user_id, chat_id))
        row == T1[user_id]
    IN  IF DOMAIN kwargs # {}
        THEN [T1 EXCEPT ![user_id] =
                 [f \in Fields |-> IF f \in DOMAIN kwargs THEN kwargs[f] ELSE row[f]]]
        ELSE T1

\* SELECT * FROM users WHERE is_active = 1 AND movie_url IS NOT NULL
ActiveIds(T) == {u \in DOMAIN T : T[u].is_active = 1 /\ T[u].movie_url # NULL}

RECURSIVE RowsOf(_, _)
RowsOf(T, S) ==
    IF S = {} THEN <<>>
    ELSE LET m == CHOOSE x \in S : \A y \in S : x <= y
         IN  <<T[m]>> \o RowsOf(T, S \ {m})

\* get_active_users without "is_active = 1" in its WHERE clause.
get_active_users_any(T) == RowsOf(T, {u \in DOMAIN T : T[u].movie_url # NULL})

\* The rows come back in rowid order, and user_id is the rowid.
get_active_users(T) == RowsOf(T, ActiveIds(T))

get_snapshot(S, user_id) == IF user_id \in DOMAIN S THEN S[user_id] ELSE EmptySig

save_snapshot(S, user_id, data) ==
    IF user_id \in DOMAIN S THEN [S EXCEPT ![user_id] = data] ELSE S @@ (user_id :> data)

db_stop_monitoring(T, user_id) ==
    IF user_id \in DOMAIN T THEN [T EXCEPT ![user_id].is_active = 0] ELSE T

----------------------------------------------------------------------------
(* The /setup conversation                                                 *)

\* SEARCH, SELECT_MOVIE, SELECT_CITY, SELECT_MODE, SEARCH_MANUAL = range(5);
\* "END" is ConversationHandler.END, also the state before any /setup.
ConvStates == {"END", "SEARCH", "SEARCH_MANUAL", "SELECT_MOVIE", "SELECT_CITY", "SELECT_MODE"}

\* context.user_data holds "results", "movie" and "city"; a key not yet set
\* is coded as <<>> (results) or NULL.  It is never cleared.
NoConversation ==
    [state |-> "END", results |-> <<>>, movie |-> NULL, city |-> NULL, handler |-> "none"]

\* What search_movie can return: up to NumMovies results with distinct
\* urls, [] included (nothing found, or an exception inside its try).
SearchResults ==
    {r \in UNION {[1..n -> Movies] : n \in 0..NumMovies} :
        \A i, j \in DOMAIN r : r[i] = r[j] => i = j}

\* The callback_data of the buttons setup_start shows.
SearchButtons == {"trend", "search_manual"}

\* The callback_data of the "Type Other City" button, coded as a number
\* that is no city.
city_manual == 0

\* The callback_data of the buttons send_city_selection shows.
CityButtons == {city_manual} \cup Cities

----------------------------------------------------------------------------
(* Command handlers                                                        *)

\* The handlers below are the database effect of each command; start and
\* stop_monitoring are outside the conversation, and mode_handler leaves
\* conv to the specification, which either follows the conversation step by
\* step or lets mode_handler run with any context.user_data.

\* A private chat's chat_id is the user's id.
ChatOf(u) == u

monitor_vars == <<pc, work, curr, err, last, msg, exc, page, cycle>>

start(u) ==
    /\ users' = update_user(users, u, ChatOf(u), <<>>)
    /\ UNCHANGED <<snapshots, baseline, call, monitor_vars, alerted, conv>>

mode_handler(u, m, c, mode) ==
    /\ users' = update_user(users, u, ChatOf(u),
                    [movie_name |-> m, movie_url |-> m, city |-> c, notify_mode |-> mode])
    /\ snapshots' = save_snapshot(snapshots, u, EmptySig)
    /\ baseline' = [baseline EXCEPT ![u] = TRUE]
    /\ alerted' = [alerted EXCEPT ![u] = {}]
    /\ UNCHANGED <<call, monitor_vars>>

\* mode_handler reached with any context.user_data: the conversation that
\* led to it is not followed.
mode_handler_any(u, m, c, mode) ==
    /\ mode_handler(u, m, c, mode)
    /\ UNCHANGED conv

db_vars == <<users, snapshots, baseline, call, alerted>>

\* A conversation handler returns: the new state and user_data of u.
Returns(u, handler, state, data) ==
    /\ conv' = [conv EXCEPT ![u] = [state |-> state, results |-> data.results,
                                     movie |-> data.movie, city |-> data.city,
                                     handler |-> handler]]
    /\ UNCHANGED <<db_vars, monitor_vars>>

\* entry_points: /setup is taken only outside a conversation
\* (allow_reentry is off).
setup_start(u) ==
    /\ conv[u].state = "END"
    /\ Returns(u, "setup_start", "SEARCH", conv[u])

search_decision_handler(u, data, results) ==
    /\ conv[u].state = "SEARCH"
    /\ IF data = "search_manual" \/ results = <<>>
       THEN Returns(u, "search_decision_handler", "SEARCH_MANUAL", conv[u])
       ELSE Returns(u, "search_decision_handler", "SELECT_CITY",
                    [conv[u] EXCEPT !.movie = results[1]])

manual_search_handler(u, results) ==
    /\ conv[u].state = "SEARCH_MANUAL"
    /\ IF results = <<>>
       THEN Returns(u, "manual_search_handler", "SEARCH_MANUAL", conv[u])
       ELSE Returns(u, "manual_search_handler", "SELECT_MOVIE",
                    [conv[u] EXCEPT !.results = results])

\* idx is the index of a "mov_" button, counted from 1.
movie_selection_handler(u, idx) ==
    /\ conv[u].state = "SELECT_MOVIE"
    /\ idx \in DOMAIN conv[u].results
    /\ Returns(u, "movie_selection_handler", "SELECT_CITY",
               [conv[u] EXCEPT !.movie = conv[u].results[idx]])

city_button_handler(u, data) ==
    /\ conv[u].state = "SELECT_CITY"
    /\ IF data = city_manual
       THEN Returns(u, "city_button_handler", "SELECT_CITY", conv[u])
       ELSE Returns(u, "city_button_handler", "SELECT_MODE", [conv[u] EXCEPT !.city = data])

city_text_handler(u, text) ==
    /\ conv[u].state = "SELECT_CITY"
    /\ Returns(u, "city_text_handler", "SELECT_MODE", [conv[u] EXCEPT !.city = text])

\* mode_handler as the handler of state SELECT_MODE.  The two writes come
\* before the await of edit_message_text; when that raises, the handler
\* returns nothing and the conversation stays in SELECT_MODE.
mode_handler_step(u, mode) ==
    /\ conv[u].state = "SELECT_MODE"
    /\ mode_handler(u, conv[u].movie, conv[u].city, mode)
    /\ \E state \in {"END", "SELECT_MODE"} :
          conv' = [conv EXCEPT ![u].state = state, ![u].handler = "mode_handler"]

\* cancel that also clears the stored snapshot.
cancel_clears(u) ==
    /\ conv[u].state # "END"
    /\ conv' = [conv EXCEPT ![u].state = "END", ![u].handler = "cancel"]
    /\ snapshots' = save_snapshot(snapshots, u, EmptySig)
    /\ UNCHANGED <<users, baseline, call, alerted, monitor_vars>>

\* fallbacks: /cancel is taken only inside a conversation.
cancel(u) ==
    /\ conv[u].state # "END"
    /\ Returns(u, "cancel", "END", conv[u])

stop_monitoring(u) ==
    /\ users' = db_stop_monitoring(users, u)
    /\ UNCHANGED <<snapshots, baseline, call, monitor_vars, alerted, conv>>

----------------------------------------------------------------------------
(* monitor_task                                                            *)

user == Head(work)

\* The locals of the loop body are dead when a cycle starts.
ClearLocals ==
    /\ curr' = EmptySig
    /\ err' = FALSE
    /\ last' = EmptySig
    /\ msg' = {}

\* CHECK_INTERVAL = int(os.getenv("CHECK_INTERVAL", "180")): the default.
CHECK_INTERVAL == 180

\* The argument of asyncio.sleep in the except block.
CooldownSeconds == 60

\* The seconds monitor_task sleeps for when it is suspended between cycles.
delay == IF pc = "cooldown" THEN CooldownSeconds ELSE CHECK_INTERVAL

\* An except block that leaves "while True" instead of sleeping.
CrashEndsLoop(kind) ==
    /\ pc' = "done"
    /\ exc' = kind
    /\ work' = <<>>

\* except Exception as e: ... await asyncio.sleep(60)
Crash(kind) ==
    /\ pc' = "cooldown"
    /\ exc' = kind
    /\ work' = <<>>

\* End of one iteration of "for user in users"; after the last one,
\* await asyncio.sleep(CHECK_INTERVAL).
NextUser ==
    /\ work' = Tail(work)
    /\ pc' = IF Tail(work) = <<>> THEN "sleep" ELSE "fetch"
    /\ exc' = "none"

CycleStart ==
    /\ pc \in {"idle", "sleep", "cooldown"}
    /\ ClearLocals
    /\ \/ /\ work' = get_active_users(users)
          /\ pc' = IF work' = <<>> THEN "sleep" ELSE "fetch"
          /\ exc' = "none"
       \/ Crash("sqlite")
    /\ page' = "none"
    /\ cycle' = 1 - cycle
    /\ UNCHANGED <<users, snapshots, baseline, call, alerted, conv>>

\* fetch_movie_data raised (async_playwright() is entered outside its try).
FetchRaises ==
    /\ pc = "fetch"
    /\ Crash("playwright")
    /\ UNCHANGED <<users, snapshots, baseline, call, curr, err, last, msg>>
    /\ UNCHANGED <<page, cycle, alerted, conv>>

\* Diff that lists every venue whose presence changed, removed ones included.
DiffAnyChange(d) ==
    LET old == get_snapshot(snapshots, user.user_id)
        new_theatres == {t \in Venues : (t \in Keys(d)) # (t \in Keys(old))}
    IN  /\ last' = old
        /\ IF user.notify_mode \in {"THEATRE", "BOTH"} /\ new_theatres # {}
           THEN /\ msg' = new_theatres
                /\ pc' = "send"
                /\ UNCHANGED <<work, exc, snapshots>>
           ELSE /\ msg' = {}
                /\ IF d # old
                   THEN \/ /\ snapshots' = save_snapshot(snapshots, user.user_id, d)
                           /\ NextUser
                        \/ /\ Crash("sqlite")
                           /\ UNCHANGED snapshots
                   ELSE /\ NextUser
                        /\ UNCHANGED snapshots

\* Diff that compares the page with an empty snapshot.
DiffNoSnapshot(d) ==
    LET old == get_snapshot(snapshots, user.user_id)
        new_theatres == Keys(d)
    IN  /\ last' = old
        /\ IF user.notify_mode \in {"THEATRE", "BOTH"} /\ new_theatres # {}
           THEN /\ msg' = new_theatres
                /\ pc' = "send"
                /\ UNCHANGED <<work, exc, snapshots>>
           ELSE /\ msg' = {}
                /\ IF d # old
                   THEN \/ /\ snapshots' = save_snapshot(snapshots, user.user_id, d)
                           /\ NextUser
                        \/ /\ Crash("sqlite")
                           /\ UNCHANGED snapshots
                   ELSE /\ NextUser
                        /\ UNCHANGED snapshots

\* The body of "if not err:" up to the await of send_message, or to the end
\* of the iteration when no message is built.
Diff(d) ==
    LET old == get_snapshot(snapshots, user.user_id)
        new_theatres == {t \in Keys(d) : t \notin Keys(old)}
    IN  /\ last' = old
        /\ IF user.notify_mode \in {"THEATRE", "BOTH"} /\ new_theatres # {}
           THEN /\ msg' = new_theatres
                /\ pc' = "send"
                /\ UNCHANGED <<work, exc, snapshots>>
           ELSE /\ msg' = {}
                /\ IF d # old
                   THEN \/ /\ snapshots' = save_snapshot(snapshots, user.user_id, d)
                           /\ NextUser
                        \/ /\ Crash("sqlite")
                           /\ UNCHANGED snapshots
                   ELSE /\ NextUser
                        /\ UNCHANGED snapshots

\* FetchError that runs the diff on the data that came with the error.
FetchErrorSaves(d) ==
    /\ pc = "fetch"
    /\ curr' = d
    /\ err' = TRUE
    /\ Diff(d)
    /\ UNCHANGED <<users, baseline, call, cycle, alerted, conv>>

\* fetch_movie_data returned (data, error) with error set.
FetchError(d) ==
    /\ pc = "fetch"
    /\ curr' = d
    /\ err' = TRUE
    /\ NextUser
    /\ UNCHANGED <<users, snapshots, baseline, call, last, msg, cycle, alerted, conv>>

\* fetch_movie_data returned (data, None).
FetchOk(d) ==
    /\ pc = "fetch"
    /\ curr' = d
    /\ err' = FALSE
    /\ baseline' = [baseline EXCEPT ![user.user_id] = FALSE]
    /\ \/ Diff(d)
       \/ /\ Crash("sqlite")
          /\ UNCHANGED <<last, msg, snapshots>>
    /\ alerted' = [alerted EXCEPT ![user.user_id] = @ \cap Keys(d)]
    /\ UNCHANGED <<users, call, cycle, conv>>

\* send_message returned; then db.save_snapshot(user['user_id'], curr).
SendOk ==
    /\ pc = "send"
    /\ \/ /\ snapshots' = save_snapshot(snapshots, user.user_id, curr)
          /\ alerted' = [alerted EXCEPT ![user.user_id] = @ \cup msg]
          /\ NextUser
       \/ /\ Crash("sqlite")
          /\ UNCHANGED <<snapshots, alerted>>
    /\ UNCHANGED <<users, baseline, call, curr, err, last, msg, page, cycle, conv>>

\* send_message raised.
SendFails ==
    /\ pc = "send"
    /\ Crash("telegram")
    /\ UNCHANGED <<users, snapshots, baseline, call, curr, err, last, msg>>
    /\ UNCHANGED <<page, cycle, alerted, conv>>

----------------------------------------------------------------------------
(* fetch_movie_data                                                        *)

\* What the site serves: the HTTP status, the kind of document and, on a
\* listing, the venues with their times.  "no_shows" is a valid page that
\* says "No shows available"; "blocked" is an anti-bot or malformed
\* document, which has neither that text nor any li.list-group-item.
Pages(shows) ==
    [status : {200}, kind : {"listing"}, shows : shows \ {EmptySig}]
      \cup [status : {200}, kind : {"no_shows", "blocked"}, shows : {EmptySig}]
      \cup [status : {403}, kind : {"blocked"}, shows : {EmptySig}]

PageKind(p) == IF p.status = 403 THEN "forbidden" ELSE p.kind

\* Never: no exception inside the try block.  Otherwise k is the number of
\* venue elements scraped before something raised (0 also covers a raise
\* in goto or in the popup handling).
Never == 0 - 1

\* The (data, error) pair returned for page p.
fetch_movie_data(p, k) ==
    IF p.status = 403
    THEN [data |-> EmptySig, error |-> TRUE]
    ELSE IF k # Never
    THEN [data |-> [v \in Venues |-> IF v <= k THEN p.shows[v] ELSE {}], error |-> TRUE]
    ELSE [data |-> p.shows, error |-> FALSE]

\* curr, err = await browser_manager.fetch_movie_data(...), and what
\* monitor_task does with the pair up to its next await.
Fetch(p, k) ==
    /\ page' = PageKind(p)
    /\ IF fetch_movie_data(p, k).error
       THEN FetchError(fetch_movie_data(p, k).data)
       ELSE FetchOk(fetch_movie_data(p, k).data)

----------------------------------------------------------------------------
(* update_user called directly, with any keyword arguments                 *)

NoCall == [user_id |-> NULL, kwargs |-> <<>>]

UpsertCall(u, kwargs) ==
    /\ users' = update_user(users, u, ChatOf(u), kwargs)
    /\ call' = [user_id |-> u, kwargs |-> kwargs]
    /\ UNCHANGED <<snapshots, baseline, monitor_vars, alerted, conv>>

----------------------------------------------------------------------------
(* Specifications                                                          *)

Init ==
    /\ users = <<>>
    /\ snapshots = <<>>
    /\ pc = "idle"
    /\ work = <<>>
    /\ curr = EmptySig
    /\ err = FALSE
    /\ last = EmptySig
    /\ msg = {}
    /\ exc = "none"
    /\ baseline = [u \in UserIds |-> FALSE]
    /\ call = NoCall
    /\ page = "none"
    /\ cycle = 0
    /\ alerted = [u \in UserIds |-> {}]
    /\ conv = [u \in UserIds |-> NoConversation]

\* Every subscriber, one movie, coarse pages; mode_handler with any
\* context.user_data.
Next ==
    \/ \E u \in UserIds : start(u)
    \/ \E u \in UserIds, c \in Cities, mode \in Modes : mode_handler_any(u, 1, c, mode)
    \/ \E u \in UserIds : stop_monitoring(u)
    \/ CycleStart
    \/ FetchRaises
    \/ \E p \in Pages(CoarsePages), k \in Never..NumVenues : Fetch(p, k)
    \/ SendOk
    \/ SendFails

Spec == Init /\ [][Next]_vars

\* The notify_mode chosen in the specification with fairness: the one that
\* only builds "New Theatres" messages.
LiveModes == {"THEATRE"}

FetchReturns ==
    \/ FetchRaises
    \/ \E p \in Pages(CoarsePages), k \in Never..NumVenues : Fetch(p, k)

SendReturns == SendOk \/ SendFails

\* Every subscriber, one movie, one mode, coarse pages.
NextLive ==
    \/ \E u \in UserIds : start(u)
    \/ \E u \in UserIds, c \in Cities, mode \in LiveModes : mode_handler_any(u, 1, c, mode)
    \/ \E u \in UserIds : stop_monitoring(u)
    \/ CycleStart
    \/ FetchReturns
    \/ SendReturns

\* The awaits of monitor_task return: asyncio.sleep after its delay,
\* fetch_movie_data with a pair or an exception (page.goto has a timeout),
\* send_message with a result or an exception.  The commands are sent by
\* people and carry no fairness.
SpecLive ==
    /\ Init /\ [][NextLive]_vars
    /\ WF_vars(CycleStart)
    /\ WF_vars(FetchReturns)
    /\ WF_vars(SendReturns)

\* One subscriber, every movie, every page.
NextDiff ==
    \/ \E u \in DiffUserIds : start(u)
    \/ \E u \in DiffUserIds, m \in Movies, c \in Cities, mode \in Modes :
          mode_handler_any(u, m, c, mode)
    \/ \E u \in DiffUserIds : stop_monitoring(u)
    \/ CycleStart
    \/ FetchRaises
    \/ \E p \in Pages(Signatures), k \in Never..NumVenues : Fetch(p, k)
    \/ SendOk
    \/ SendFails

SpecDiff == Init /\ [][NextDiff]_vars

\* update_user alone, on every subscriber, with the keyword sets of the
\* two callers (start: none, mode_handler: the four setup columns) and
\* with single columns.
NextUpsert ==
    \/ \E u \in UserIds : UpsertCall(u, <<>>)
    \/ \E u \in UserIds, m \in Movies, c \in Cities, mode \in Modes :
          UpsertCall(u, [movie_name |-> m, movie_url |-> m, city |-> c, notify_mode |-> mode])
    \/ \E u \in UserIds, mode \in Modes : UpsertCall(u, [notify_mode |-> mode])
    \/ \E u \in UserIds, m \in Movies : UpsertCall(u, [movie_url |-> m])
    \/ \E u \in UserIds, a \in {0, 1} : UpsertCall(u, [is_active |-> a])

SpecUpsert == Init /\ [][NextUpsert]_vars

\* The /setup conversation and /stop of one subscriber followed step by
\* step, /start of every subscriber, coarse pages.
NextSetup ==
    \/ \E u \in UserIds : start(u)
    \/ \E u \in DiffUserIds : stop_monitoring(u)
    \/ \E u \in DiffUserIds : setup_start(u)
    \/ \E u \in DiffUserIds, data \in SearchButtons, results \in SearchResults :
          search_decision_handler(u, data, results)
    \/ \E u \in DiffUserIds, results \in SearchResults : manual_search_handler(u, results)
    \/ \E u \in DiffUserIds, idx \in 1..NumMovies : movie_selection_handler(u, idx)
    \/ \E u \in DiffUserIds, data \in CityButtons : city_button_handler(u, data)
    \/ \E u \in DiffUserIds, text \in Cities : city_text_handler(u, text)
    \/ \E u \in DiffUserIds, mode \in Modes : mode_handler_step(u, mode)
    \/ \E u \in DiffUserIds : cancel(u)
    \/ CycleStart
    \/ FetchReturns
    \/ SendReturns

SpecSetup == Init /\ [][NextSetup]_vars

----------------------------------------------------------------------------
(* Properties                                                              *)

\* A step taken by monitor_task (the handlers never move pc or work).
MonitorStep == pc' # pc \/ work' # work

\* A fetch returned without error and the iteration raised nothing.
FetchProcessed == pc = "fetch" /\ MonitorStep /\ ~err' /\ exc' = "none"

\* Every venue and every slot of d is already in old.
Covered(d, old) == \A v \in Venues : d[v] \subseteq old[v]

WorkIds(w) == {w[i].user_id : i \in 1..Len(w)}

\* C1 - Baseline: the first successful fetch processed after a subscriber
\* completed setup stores the fetched signature and sends no notification,
\* whatever the page and the notify_mode.
Baseline ==
    [][(FetchProcessed /\ baseline[user.user_id])
         => (pc' # "send" /\ get_snapshot(snapshots', user.user_id) = curr')]_vars

\* C2 - Isolation: a cycle never ends (normally, or on a failing snapshot
\* read, send or snapshot write) while subscribers that follow the current
\* one are still waiting in its work list.
Isolation ==
    [][(pc \in {"fetch", "send"} /\ pc' \in {"sleep", "cooldown"} /\ exc' # "playwright")
         => Len(work) = 1]_vars

\* C3 - Failed fetch: when fetch_movie_data returns an error, whatever data
\* came with it, monitor_task changes no stored snapshot and sends nothing.
FailedFetch ==
    [][(pc = "fetch" /\ MonitorStep /\ err') => (snapshots' = snapshots /\ pc' # "send")]_vars

\* C3 witness: a cycle ended on a fetch error that carried partial data
\* different from the subscriber's non-empty snapshot.
FailedFetchSeen ==
    /\ pc = "sleep" /\ err /\ curr # EmptySig
    /\ 1 \in DOMAIN snapshots
    /\ snapshots[1] # EmptySig /\ snapshots[1] # curr

\* C4 - Slot-only addition: same venues as the snapshot, every stored slot
\* still there and a slot the snapshot lacks: a notification is sent under BOTH and SHOW and is not
\* sent under THEATRE.
SlotOnlyAddition ==
    [][(/\ FetchProcessed
        /\ ~baseline[user.user_id]
        /\ Keys(curr') = Keys(get_snapshot(snapshots, user.user_id))
        /\ Covered(get_snapshot(snapshots, user.user_id), curr')
        /\ ~Covered(curr', get_snapshot(snapshots, user.user_id)))
         => /\ user.notify_mode \in {"BOTH", "SHOW"} => pc' = "send"
            /\ user.notify_mode = "THEATRE" => pc' # "send"]_vars

\* C5 - Notification failure keeps the observation: when send_message
\* fails, the fetched signature is still stored as the subscriber's
\* snapshot, and the send is not attempted again.
NotifyFailureKeepsObservation ==
    [][(pc = "send" /\ exc' = "telegram")
         => (get_snapshot(snapshots', user.user_id) = curr /\ pc' # "send")]_vars

\* C6 - New venue: a non-baseline successful fetch with a venue the snapshot
\* lacks, under THEATRE or BOTH, makes exactly one send_message call that
\* names exactly the venues absent from the snapshot, and after the call
\* the fetched signature is the stored snapshot (a failing store excepted).
NewVenue ==
    [][/\ (/\ FetchProcessed
           /\ ~baseline[user.user_id]
           /\ user.notify_mode \in {"THEATRE", "BOTH"}
           /\ Keys(curr') \ Keys(get_snapshot(snapshots, user.user_id)) # {})
         => /\ pc' = "send"
            /\ msg' = Keys(curr') \ Keys(get_snapshot(snapshots, user.user_id))
       /\ (pc = "send" /\ MonitorStep /\ last # EmptySig /\ exc' # "sqlite")
         => /\ pc' # "send"
            /\ get_snapshot(snapshots', user.user_id) = curr]_vars

\* C7 - No additions, no alert: when every venue and slot of the fetched
\* signature is already in the stored snapshot, no notification is sent
\* under any policy, and unless the store raises the fetched signature is
\* the stored snapshot afterwards.
NoAdditionsNoAlert ==
    [][(/\ pc = "fetch" /\ MonitorStep /\ ~err' /\ exc' # "playwright"
        /\ Covered(curr', get_snapshot(snapshots, user.user_id)))
         => /\ pc' # "send"
            /\ exc' = "none" => get_snapshot(snapshots', user.user_id) = curr']_vars

\* C7 witness: a cycle ended after a fetch that only removed venues or
\* slots from a non-empty snapshot, and the shrunk signature is stored.
ShrunkStored ==
    /\ pc = "sleep" /\ ~err /\ exc = "none"
    /\ last # EmptySig /\ curr # last /\ Covered(curr, last)
    /\ 1 \in DOMAIN snapshots /\ snapshots[1] = curr

\* C8 - Pause: the work list read at the start of a cycle holds only rows
\* whose is_active is 1; during the cycle the list only shrinks and only
\* the current subscriber's snapshot is written; and a step that turns a
\* subscriber's is_active from 1 to 0 changes nothing else in either table.
Pause ==
    [][/\ (pc \in {"idle", "sleep", "cooldown"} /\ pc' = "fetch")
         => \A i \in 1..Len(work') :
               /\ work'[i].user_id \in DOMAIN users
               /\ work'[i] = users[work'[i].user_id]
               /\ work'[i].is_active = 1
       /\ (pc \in {"fetch", "send"} /\ MonitorStep)
         => /\ work' \in {work, Tail(work), <<>>}
            /\ \A u \in UserIds \ {user.user_id} :
                  /\ (u \in DOMAIN snapshots') = (u \in DOMAIN snapshots)
                  /\ get_snapshot(snapshots', u) = get_snapshot(snapshots, u)
       /\ \A u \in DOMAIN users :
            (users[u].is_active = 1 /\ u \in DOMAIN users' /\ users'[u].is_active = 0)
              => /\ users' = [users EXCEPT ![u].is_active = 0]
                 /\ snapshots' = snapshots]_vars

\* C8 witness: a cycle is fetching for subscriber 1 with nobody after it,
\* while subscriber 2 is set up, paused and still has its snapshot.
PausedSkipped ==
    /\ pc = "fetch" /\ WorkIds(work) = {1}
    /\ 2 \in DOMAIN users /\ 2 \in DOMAIN snapshots
    /\ users[2].is_active = 0 /\ users[2].movie_url # NULL
    /\ snapshots[2] # EmptySig

\* C9 - Resume: when mode_handler completes for a subscriber, that
\* subscriber is in the result of get_active_users, also after an earlier
\* /stop.
Resume ==
    [][\A u \in UserIds :
         (\E m \in Movies, c \in Cities, mode \in Modes : mode_handler(u, m, c, mode))
           => u \in ActiveIds(users')]_vars

\* C10 - Upsert: an update_user call with the arguments of the call before
\* it leaves the table as it is, and any update_user call leaves every
\* column it was not given, and every other subscriber's row, unchanged.
Upsert ==
    [][/\ call' = call => users' = users
       /\ DOMAIN users \subseteq DOMAIN users'
       /\ \A u \in DOMAIN users : \A f \in Fields :
            (u # call'.user_id \/ f \notin DOMAIN call'.kwargs) => users'[u][f] = users[u][f]]_vars

\* C10 witness: update_user was called with notify_mode only on a set-up,
\* paused subscriber, whose target and is_active are still in place.
PartialUpdateKept ==
    /\ DOMAIN call.kwargs = {"notify_mode"}
    /\ call.user_id \in DOMAIN users
    /\ users[call.user_id].movie_url # NULL
    /\ users[call.user_id].city # NULL
    /\ users[call.user_id].is_active = 0

\* C11 - Snapshot provenance: a subscriber's snapshot changes only in a
\* step of monitor_task that follows a fetch for that subscriber which
\* returned no error, and the value written is the fetched data.
SnapshotProvenance ==
    [][\A u \in UserIds :
         get_snapshot(snapshots', u) # get_snapshot(snapshots, u)
           => /\ pc \in {"fetch", "send"} /\ MonitorStep
              /\ u = user.user_id
              /\ ~err'
              /\ get_snapshot(snapshots', u) = curr']_vars

\* C12 - Three-way extraction: a fetch that was served a blocked or
\* malformed page with status 200 returns an error and leaves a non-empty
\* snapshot as it is.
ThreeWayExtraction ==
    [][(/\ pc = "fetch" /\ MonitorStep /\ exc' # "playwright"
        /\ page' = "blocked"
        /\ get_snapshot(snapshots, user.user_id) # EmptySig)
         => (err' /\ snapshots' = snapshots)]_vars

\* C13 - Stable work list: the list is read when a cycle starts and only
\* shrinks during the cycle; a subscriber who completes setup during a
\* cycle whose list does not hold them is not added to that list and is in
\* the result the next cycle's get_active_users reads.
StableWorkList ==
    [][/\ (pc \in {"idle", "sleep", "cooldown"} /\ MonitorStep /\ exc' = "none")
         => work' = get_active_users(users)
       /\ pc \in {"fetch", "send"} => work' \in {work, Tail(work), <<>>}
       /\ \A u \in UserIds :
            (/\ pc \in {"fetch", "send"}
             /\ u \notin WorkIds(work)
             /\ \E m \in Movies, c \in Cities, mode \in Modes : mode_handler(u, m, c, mode))
              => (work' = work /\ u \in ActiveIds(users'))]_vars

\* C14 - No terminal state: cycles are started again and again, whatever
\* happened in the cycles before, and every cycle that is running ends in
\* one of the two sleeps.
NoTerminalState ==
    /\ \A b \in {0, 1} : []<>(cycle = b)
    /\ (pc \in {"fetch", "send"}) ~> (pc \in {"sleep", "cooldown"})

\* A second or later cycle was aborted by a failed send and the task is in
\* the sleep of the except block.
AbortedCycleSleeps == pc = "cooldown" /\ exc = "telegram" /\ cycle = 0

\* C15 - Cooldown: the sleep after a cycle that ended in the except block
\* is strictly longer than CHECK_INTERVAL.
Cooldown == pc = "cooldown" => delay > CHECK_INTERVAL

\* The monitor step sends a message to `user` or writes `user`'s snapshot.
SendsOrSaves ==
    /\ pc \in {"fetch", "send"}
    /\ MonitorStep
    /\ \/ pc = "fetch" /\ pc' = "send"
       \/ get_snapshot(snapshots', user.user_id) # get_snapshot(snapshots, user.user_id)

\* C16 - Re-setup race: a message is sent and a snapshot is written only
\* for a fetch of the target the subscriber has at that moment.
ReSetupRace ==
    [][SendsOrSaves
         => /\ user.movie_url = users[user.user_id].movie_url
            /\ user.city = users[user.user_id].city]_vars

\* C17 - Stop race: no message is sent to and no snapshot is written for a
\* subscriber whose is_active is 0.
StopRace == [][SendsOrSaves => users[user.user_id].is_active = 1]_vars

\* C18 - No starvation: a subscriber who stays active from some point on,
\* with no fetch returning an error and nothing but sends failing from
\* then on, has a successful fetch processed again and again.
NoStarvation ==
    \A u \in UserIds :
        <>[](u \in ActiveIds(users) /\ ~err /\ exc \in {"none", "telegram"})
          => []<><<FetchProcessed /\ user.user_id = u>>_vars

\* C19 - No duplicate alert: a message never names a venue that a delivered
\* and saved message named before and that every successful fetch since,
\* this one included, has listed, with no setup in between.
NoDuplicateAlert ==
    [][(pc = "fetch" /\ pc' = "send") => msg' \cap alerted'[user.user_id] = {}]_vars

\* The fetch of a later cycle listed an alerted venue again, with a change
\* that was saved, and no message was built.
AlertedVenueListedAgain ==
    /\ pc = "sleep" /\ page = "listing" /\ ~err /\ msg = {}
    /\ alerted[1] # {}
    /\ curr # last
    /\ get_snapshot(snapshots, 1) = curr

\* The four columns mode_handler writes, NULL for a user without a row.
Target(T, u) ==
    IF u \in DOMAIN T
    THEN <<T[u].movie_name, T[u].movie_url, T[u].city, T[u].notify_mode>>
    ELSE <<NULL, NULL, NULL, "NULL">>

\* The step is the final step of u's conversation.
FinalStep(u) == conv[u].state = "SELECT_MODE" /\ conv'[u].handler = "mode_handler"

\* C20 - Setup is atomic at completion: a conversation step that is not
\* the final one (cancel included) changes neither the subscriber's row
\* nor the snapshot; the target and notify_mode change only in the final
\* step, the snapshot only there or in monitor_task, the active flag of an
\* existing row only by /stop; and nobody without a target is in the work
\* list.
SetupAtomic ==
    [][\A u \in UserIds :
         /\ (conv'[u] # conv[u] /\ conv'[u].handler # "mode_handler")
              => (users' = users /\ snapshots' = snapshots)
         /\ Target(users', u) # Target(users, u) => FinalStep(u)
         /\ get_snapshot(snapshots', u) # get_snapshot(snapshots, u)
              => (FinalStep(u) \/ (MonitorStep /\ u = user.user_id))
         /\ (u \in DOMAIN users /\ users'[u].is_active # users[u].is_active)
              => (users'[u].is_active = 0 /\ conv' = conv /\ ~MonitorStep)
         /\ u \in WorkIds(work') => Target(users', u)[2] # NULL]_vars

\* A set-up subscriber with a stored signature cancelled a later
\* conversation at SELECT_MODE with a different movie chosen, was stopped,
\* and a cycle is running for it while the other user has only run /start.
CancelledSetupKeptTarget ==
    /\ conv[1].handler = "cancel" /\ conv[1].state = "END"
    /\ conv[1].city # NULL
    /\ 1 \in DOMAIN users /\ users[1].movie_url \notin {NULL, conv[1].movie}
    /\ users[1].is_active = 0
    /\ get_snapshot(snapshots, 1) # EmptySig
    /\ 2 \in DOMAIN users
    /\ pc = "fetch"

====
